---------------------------- MODULE Spec2Model ----------------------------
(***************************************************************************)
(* Model of the maze-chase game of src/main.cpp: the engine loop           *)
(* (GameEngine::MainGameLoop), the game-state machine (CurGameState /      *)
(* NextGameState), the maze, the player and the four enemies.              *)
(*                                                                         *)
(* One tick of the loop is the sequence of actions                         *)
(*   SampleInput, one Update action per registered object (in              *)
(*   registration order), EngineDraw, Commit.                              *)
(* Rendering (pixels, sprites, text) is left out; of Draw only the effects *)
(* on the program state are kept (Maze::Draw).  The fields _mouthOpen and  *)
(* _imageA only select a sprite image and are left out as well.            *)
(***************************************************************************)
EXTENDS Integers, Sequences, FiniteSets, TLC

(***************************************************************************)
(* Program constants (the #defines of src/main.cpp).                       *)
(***************************************************************************)
NORTH == 1
EAST == 2
SOUTH == 4
WEST == 8

WIDTH == 28
HEIGHT == 30
TILE_SIZE == 8

BLINKY_AI == 1
PINKY_AI == 2
INKY_AI == 3
CLYDE_AI == 4

SPLASH_SCREEN == 0
MAIN_MENU == 1
STARTUP == 2
PLAY == 3
CONTINUE == 4
NEXT_LEVEL == 5
DEAD == 6
GAME_OVER == 7

\* SplashScreen::Update leaves the splash state when _frameCount >= 50.
SplashFrames == 50
\* Player::Init sets _lives to 10; the constructor sets 3.
InitLives == 10
ConstructorLives == 3
\* The offsets of the enemies' targets, in tiles.
PinkyAhead == 4
InkyAhead == 2
ClydeRange == 8

(***************************************************************************)
(* Bounds of the model.                                                    *)
(***************************************************************************)
\* PLAY ticks explored in one run (the game itself never stops).
MaxPlayTicks == 4
\* The tick counter (an observer of the model) stops counting here.
TickCap == 51
\* Pellets removed in one run of the maze's functions on their own.
MaxRemovals == 2
\* Pixels beyond the left and the right edge of the maze at which the
\* sprite's functions are called on their own.
UnitMargin == 9

(***************************************************************************)
(* Inputs: the touch screen sample of a tick.  BSP_TS_GetState yields      *)
(* either no touch or a touch at a pixel of the screen.                    *)
(***************************************************************************)
Pos(px, py) == [x |-> px, y |-> py]

TouchPoints == {Pos(120, 0), Pos(120, 239), Pos(0, 120), Pos(239, 120), Pos(0, 112)}

NoTouch == [touchDetected |-> FALSE, touchX |-> 0, touchY |-> 0]

TouchSamples ==
    {NoTouch} \cup
    {[touchDetected |-> TRUE, touchX |-> p.x, touchY |-> p.y] : p \in TouchPoints}

\* Contents an uninitialised Position local may hold (Maze::IsFloorAdjacentScreenPos
\* reads adjacentPosA/B unwritten when the direction is none of the four): one
\* value on a wall tile and one on a floor tile, so both results can come out.
UninitPositions == {Pos(0, 0), Pos(104, 176)}

(***************************************************************************)
(* 32-bit int arithmetic.  Position and score values stay small; the       *)
(* enemies' targets and squared distances can leave the int range, where   *)
(* the build wraps modulo 2^32.  The operators below compute the wrapped   *)
(* result without an intermediate value outside the int range.             *)
(***************************************************************************)
Abs(v) == IF v < 0 THEN -v ELSE v

Lo16(a) == a % 65536
Hi16(a) == a \div 65536
Make32(h, l) == (((h + 32768) % 65536) - 32768) * 65536 + l

Add32(a, b) ==
    LET l == Lo16(a) + Lo16(b)
    IN  Make32(Hi16(a) + Hi16(b) + (l \div 65536), l % 65536)

Sub32(a, b) ==
    LET l == Lo16(a) - Lo16(b)
    IN  Make32(Hi16(a) - Hi16(b) + (l \div 65536), l % 65536)

Byte(a, k) ==
    IF k = 0 THEN Lo16(a) % 256
    ELSE IF k = 1 THEN Lo16(a) \div 256
    ELSE IF k = 2 THEN (Hi16(a) % 65536) % 256
    ELSE (Hi16(a) % 65536) \div 256

Mul32(a, b) ==
    LET c0 == Byte(a, 0) * Byte(b, 0)
        c1 == Byte(a, 0) * Byte(b, 1) + Byte(a, 1) * Byte(b, 0)
        c2 == Byte(a, 0) * Byte(b, 2) + Byte(a, 1) * Byte(b, 1) + Byte(a, 2) * Byte(b, 0)
        c3 == Byte(a, 0) * Byte(b, 3) + Byte(a, 1) * Byte(b, 2)
                + Byte(a, 2) * Byte(b, 1) + Byte(a, 3) * Byte(b, 0)
        l  == c0 + (c1 % 256) * 256
        h  == (l \div 65536) + (c1 \div 256) + c2 + (c3 % 256) * 256
    IN  Make32(h % 65536, l % 65536)

\* C++ integer division truncates toward zero.
CDiv(a, b) == IF a >= 0 THEN a \div b ELSE -((-a) \div b)

\* Bit x of the int v (x in 0..31, v >= 0): (v >> x) & 0x1.
Bit(v, x) == (v \div (2 ^ x)) % 2

(***************************************************************************)
(* The maze (Maze::SetClassicMaze, Maze::SetPelletsClassicMaze).  Row y of *)
(* the C++ arrays is element y + 1 of the sequences.                       *)
(***************************************************************************)
\* A variant of SetPelletsClassicMaze with pellets on the two wall tiles in the
\* middle of row 2.
SetPelletsOnWall ==
    << 0, 0, \h7FFFFFE, \h4209042, \h4209042, \h4209042, \h7FFFFFE, \h4240242,
       \h4240242, \h7E79E7E, \h0200040, \h0200040, \h0200040, \h0200040, \h0200040,
       \h0200040, \h0200040, \h0200040, \h0200040, \h7FF9FFE, \h4209042, \h4209042,
       \h73FDFCE, \h1240248, \h1240248, \h7E79E7E, \h4009002, \h4009002, \h7FFFFFE, 0 >>

SetClassicMaze ==
    << \h0,       \h0,       \h7FF9FFE, \h4209042, \h4209042,
       \h4209042, \h7FFFFFE, \h4240242, \h4240242, \h7E79E7E,
       \h0209040, \h0209040, \h027FE40, \h0240240, \hFFC03FF,
       \h0240240, \h027FE40, \h0240240, \h0240240, \h7FF9FFE,
       \h4209042, \h4209042, \h73FFFCE, \h1240248, \h1240248,
       \h7E79E7E, \h4009002, \h4009002, \h7FFFFFE, \h0 >>

SetPelletsClassicMaze ==
    << \h0,       \h0,       \h7FF9FFE, \h4209042, \h4209042,
       \h4209042, \h7FFFFFE, \h4240242, \h4240242, \h7E79E7E,
       \h0200040, \h0200040, \h0200040, \h0200040, \h0200040,
       \h0200040, \h0200040, \h0200040, \h0200040, \h7FF9FFE,
       \h4209042, \h4209042, \h73FDFCE, \h1240248, \h1240248,
       \h7E79E7E, \h4009002, \h4009002, \h7FFFFFE, \h0 >>

IsInBounds(x, y) == x > -1 /\ x < WIDTH /\ y > -1 /\ y < HEIGHT

IsFloor(x, y) == IsInBounds(x, y) /\ Bit(SetClassicMaze[y + 1], x) = 1

IsPellet(pellets, x, y) == IsInBounds(x, y) /\ Bit(pellets[y + 1], x) = 1

\* Maze::GetPelletCount: the number of pellet bits set.
GetPelletCount(pellets) ==
    Cardinality({t \in (0 .. WIDTH - 1) \X (0 .. HEIGHT - 1) : IsPellet(pellets, t[1], t[2])})

ScreenPosToTilePos(p) == Pos(CDiv(p.x, TILE_SIZE), CDiv(p.y, TILE_SIZE))

\* A variant of TryRemovePellet that reports a removal whatever the tile held.
TryRemovePelletAlwaysTrue(pellets, x, y) ==
    IF IsPellet(pellets, x, y)
    THEN [pellets |-> [pellets EXCEPT ![y + 1] = @ - 2 ^ x], removed |-> TRUE]
    ELSE [pellets |-> pellets, removed |-> TRUE]

\* A variant of TryRemovePellet that reports the pellet and leaves it in place.
TryRemovePelletKeepsPellet(pellets, x, y) ==
    [pellets |-> pellets, removed |-> IsPellet(pellets, x, y)]

\* A variant of TryRemovePellet that clears the whole row of the pellet.
TryRemovePelletClearsRow(pellets, x, y) ==
    IF IsPellet(pellets, x, y)
    THEN [pellets |-> [pellets EXCEPT ![y + 1] = 0], removed |-> TRUE]
    ELSE [pellets |-> pellets, removed |-> FALSE]

\* Maze::TryRemovePellet: the pellets afterwards and the value returned.
TryRemovePellet(pellets, x, y) ==
    IF IsPellet(pellets, x, y)
    THEN [pellets |-> [pellets EXCEPT ![y + 1] = @ - 2 ^ x], removed |-> TRUE]
    ELSE [pellets |-> pellets, removed |-> FALSE]

TryRemovePelletScreenPos(pellets, screenPos) ==
    LET tilePos == ScreenPosToTilePos(screenPos)
    IN  TryRemovePellet(pellets, tilePos.x, tilePos.y)

\* Maze::IsFloorAdjacentScreenPos.  uninit is what adjacentPosA and adjacentPosB
\* hold before they are written: for a direction that is none of the four they
\* are read as they are.
IsFloorAdjacentScreenPos(screenPos, direction, uninit) ==
    LET adjacentPosA ==
            IF direction = NORTH THEN Pos(screenPos.x, screenPos.y - 1)
            ELSE IF direction = EAST THEN Pos(screenPos.x + TILE_SIZE, screenPos.y)
            ELSE IF direction = SOUTH THEN Pos(screenPos.x, screenPos.y + TILE_SIZE)
            ELSE IF direction = WEST THEN Pos(screenPos.x - 1, screenPos.y)
            ELSE uninit
        adjacentPosB ==
            IF direction = NORTH THEN Pos(screenPos.x + TILE_SIZE - 1, screenPos.y - 1)
            ELSE IF direction = EAST
                 THEN Pos(screenPos.x + TILE_SIZE, screenPos.y + TILE_SIZE - 1)
            ELSE IF direction = SOUTH
                 THEN Pos(screenPos.x + TILE_SIZE - 1, screenPos.y + TILE_SIZE)
            ELSE IF direction = WEST THEN Pos(screenPos.x - 1, screenPos.y + TILE_SIZE - 1)
            ELSE uninit
        tilePosA == ScreenPosToTilePos(adjacentPosA)
        tilePosB == ScreenPosToTilePos(adjacentPosB)
    IN  IsFloor(tilePosA.x, tilePosA.y) /\ IsFloor(tilePosB.x, tilePosB.y)

(***************************************************************************)
(* BaseGameSprite.                                                         *)
(***************************************************************************)
\* A variant of UpdatePosition that teleports only after a move to the east
\* or to the west.
UpdatePositionWrapsOnXMove(position, direction) ==
    IF direction = NORTH THEN Pos(position.x, position.y - 1)
    ELSE IF direction = SOUTH THEN Pos(position.x, position.y + 1)
    ELSE IF direction = EAST
         THEN (IF position.x + 1 = (WIDTH - 1) * TILE_SIZE THEN Pos(0, position.y)
               ELSE IF position.x + 1 = 0 THEN Pos((WIDTH - 1) * TILE_SIZE, position.y)
               ELSE Pos(position.x + 1, position.y))
    ELSE IF direction = WEST
         THEN (IF position.x - 1 = 0 THEN Pos((WIDTH - 1) * TILE_SIZE, position.y)
               ELSE IF position.x - 1 = (WIDTH - 1) * TILE_SIZE THEN Pos(0, position.y)
               ELSE Pos(position.x - 1, position.y))
    ELSE position

\* BaseGameSprite::UpdatePosition: one pixel in the direction, then the teleport.
UpdatePosition(position, direction) ==
    LET moved ==
            IF direction = NORTH THEN Pos(position.x, position.y - 1)
            ELSE IF direction = EAST THEN Pos(position.x + 1, position.y)
            ELSE IF direction = SOUTH THEN Pos(position.x, position.y + 1)
            ELSE IF direction = WEST THEN Pos(position.x - 1, position.y)
            ELSE position
    IN  IF moved.x = 0 THEN Pos((WIDTH - 1) * TILE_SIZE, moved.y)
        ELSE IF moved.x = (WIDTH - 1) * TILE_SIZE THEN Pos(0, moved.y)
        ELSE moved

\* A variant of HasCollided in which boxes that only touch count as collided.
HasCollidedTouching(position, other) ==
    /\ position.x <= other.x + TILE_SIZE
    /\ position.x + TILE_SIZE >= other.x
    /\ position.y <= other.y + TILE_SIZE
    /\ position.y + TILE_SIZE >= other.y

\* BaseGameSprite::HasCollided: this->position against sprite->position.
HasCollided(position, other) ==
    /\ position.x < other.x + TILE_SIZE
    /\ position.x + TILE_SIZE > other.x
    /\ position.y < other.y + TILE_SIZE
    /\ position.y + TILE_SIZE > other.y

(***************************************************************************)
(* Enemy: distances, target selection, direction selection.                *)
(***************************************************************************)
GetManhattanDist(start, target) == Abs(start.x - target.x) + Abs(start.y - target.y)

\* Enemy::GetDistanceSq, in 32-bit int arithmetic.
GetDistanceSq(x0, y0, target) ==
    LET dx == Sub32(x0, target.x)
        dy == Sub32(y0, target.y)
    IN  Add32(Mul32(dx, dx), Mul32(dy, dy))

SetTargetToPlayer(playerPos) == playerPos

\* The point `tiles` tiles ahead of the player along lastDir; the target is
\* left as it was (old) when lastDir is none of the four directions.
AheadOfPlayer(old, playerPos, lastDir, tiles) ==
    IF lastDir = NORTH THEN Pos(playerPos.x, playerPos.y - tiles * TILE_SIZE)
    ELSE IF lastDir = EAST THEN Pos(playerPos.x + tiles * TILE_SIZE, playerPos.y)
    ELSE IF lastDir = SOUTH THEN Pos(playerPos.x, playerPos.y + tiles * TILE_SIZE)
    ELSE IF lastDir = WEST THEN Pos(playerPos.x - tiles * TILE_SIZE, playerPos.y)
    ELSE old

SetTargetInfrontOfPlayer(old, playerPos, lastDir) ==
    AheadOfPlayer(old, playerPos, lastDir, PinkyAhead)

SetTargetBlockPlayer(old, playerPos, lastDir, blinkyPos) ==
    LET t == AheadOfPlayer(old, playerPos, lastDir, InkyAhead)
    IN  Pos(Add32(t.x, Sub32(t.x, blinkyPos.x)), Add32(t.y, Sub32(t.y, blinkyPos.y)))

\* A variant of SetTargetClyde that still chases at the range itself.
SetTargetClydeChasesAtRange(position, playerPos) ==
    IF GetManhattanDist(position, playerPos) >= ClydeRange * TILE_SIZE
    THEN SetTargetToPlayer(playerPos)
    ELSE Pos(0, HEIGHT * TILE_SIZE)

SetTargetClyde(position, playerPos) ==
    IF GetManhattanDist(position, playerPos) > ClydeRange * TILE_SIZE
    THEN SetTargetToPlayer(playerPos)
    ELSE Pos(0, HEIGHT * TILE_SIZE)

\* Enemy::SetTarget: the new _target of an enemy of the given AI type.
SetTarget(aiType, old, position, playerPos, lastDir, blinkyPos) ==
    IF aiType = BLINKY_AI THEN SetTargetToPlayer(playerPos)
    ELSE IF aiType = PINKY_AI THEN SetTargetInfrontOfPlayer(old, playerPos, lastDir)
    ELSE IF aiType = INKY_AI THEN SetTargetBlockPlayer(old, playerPos, lastDir, blinkyPos)
    ELSE IF aiType = CLYDE_AI THEN SetTargetClyde(position, playerPos)
    ELSE old

\* A variant of Dirs in the order of the direction values.
DirsClockwise == <<NORTH, EAST, SOUTH, WEST>>

\* The array dirs of Enemy::GetNextDir.
Dirs == <<NORTH, SOUTH, EAST, WEST>>

\* The enemy never passes anything but one of the four directions, so the
\* uninitialised locals of IsFloorAdjacentScreenPos are never read for it.
EnemyCanMove(position, direction) ==
    IsFloorAdjacentScreenPos(position, direction, Pos(0, 0))

\* A variant of IsCandidate that lets the enemy turn back.
IsCandidateAnyDir(position, lastDir, direction) == EnemyCanMove(position, direction)

\* A variant of IsCandidate that does not look at the maze.
IsCandidateThroughWalls(position, lastDir, direction) ==
    IF direction = NORTH THEN lastDir # SOUTH
    ELSE IF direction = EAST THEN lastDir # WEST
    ELSE IF direction = SOUTH THEN lastDir # NORTH
    ELSE lastDir # EAST

\* The tests north / east / south / west of Enemy::GetNextDir.
IsCandidate(position, lastDir, direction) ==
    IF direction = NORTH THEN lastDir # SOUTH /\ EnemyCanMove(position, NORTH)
    ELSE IF direction = EAST THEN lastDir # WEST /\ EnemyCanMove(position, EAST)
    ELSE IF direction = SOUTH THEN lastDir # NORTH /\ EnemyCanMove(position, SOUTH)
    ELSE lastDir # EAST /\ EnemyCanMove(position, WEST)

\* The value d of one pass of the loop of Enemy::GetNextDir.
CandidateDist(position, lastDir, target, direction) ==
    IF ~IsCandidate(position, lastDir, direction) THEN -1
    ELSE IF direction = NORTH THEN GetDistanceSq(position.x, position.y - 1, target)
    ELSE IF direction = EAST THEN GetDistanceSq(position.x + 1, position.y, target)
    ELSE IF direction = SOUTH THEN GetDistanceSq(position.x, position.y + 1, target)
    ELSE GetDistanceSq(position.x - 1, position.y, target)

\* smallestIndex / smallestValue after the first n passes of the loop.
RECURSIVE Smallest(_, _, _, _)
Smallest(position, lastDir, target, n) ==
    IF n = 0 THEN [index |-> 0, value |-> -1]
    ELSE LET prev == Smallest(position, lastDir, target, n - 1)
             d == CandidateDist(position, lastDir, target, Dirs[n])
         IN  IF d # -1 /\ (d < prev.value \/ prev.value = -1)
             THEN [index |-> n - 1, value |-> d]
             ELSE prev

\* Enemy::GetNextDir: the new _nextDir.
GetNextDir(position, lastDir, target) ==
    Dirs[Smallest(position, lastDir, target, 4).index + 1]

\* A variant of SetDirection in which equal offsets go to the vertical axis.
SetDirectionTieVertical(nextDir, position, ts) ==
    IF ts.touchDetected
    THEN LET xDiff == position.x - ts.touchX
             yDiff == position.y - ts.touchY
         IN  IF Abs(xDiff) > Abs(yDiff)
             THEN (IF xDiff < 0 THEN EAST ELSE WEST)
             ELSE (IF yDiff < 0 THEN SOUTH ELSE NORTH)
    ELSE nextDir

\* Player::SetDirection: the new _nextDir.
SetDirection(nextDir, position, ts) ==
    IF ts.touchDetected
    THEN LET xDiff == position.x - ts.touchX
             yDiff == position.y - ts.touchY
         IN  IF Abs(xDiff) >= Abs(yDiff)
             THEN (IF xDiff < 0 THEN EAST ELSE WEST)
             ELSE (IF yDiff < 0 THEN SOUTH ELSE NORTH)
    ELSE nextDir

\* A variant of PlayerPlay that forgets a direction it cannot take at once.
PlayerPlayDropsPending(p, pellets, maxP, ts, u1, u2) ==
    LET nextDir == SetDirection(p._nextDir, p.position, ts)
        first   == IsFloorAdjacentScreenPos(p.position, nextDir, u1)
        second  == ~first /\ IsFloorAdjacentScreenPos(p.position, p.lastDir, u2)
        moved   == IF first THEN UpdatePosition(p.position, nextDir)
                   ELSE IF second THEN UpdatePosition(p.position, p.lastDir)
                   ELSE p.position
        removal == IF first \/ second THEN TryRemovePelletScreenPos(pellets, moved)
                   ELSE [pellets |-> pellets, removed |-> FALSE]
        score   == p._score + (IF removal.removed THEN 1 ELSE 0)
        levelUp == score = maxP * p._level
    IN  [player |-> [position |-> moved,
                     lastDir  |-> IF first THEN nextDir ELSE p.lastDir,
                     _nextDir |-> 0,
                     _score   |-> score,
                     _lives   |-> p._lives,
                     _level   |-> IF levelUp THEN p._level + 1 ELSE p._level],
         pellets |-> removal.pellets,
         levelUp |-> levelUp]

(***************************************************************************)
(* Player::Update in the PLAY state, as a function: the player and the     *)
(* pellets after the tick's move.  u1 and u2 are the uninitialised         *)
(* contents read by the first and the second passability test when the     *)
(* direction tested is none of the four.                                   *)
(***************************************************************************)
PlayerPlay(p, pellets, maxP, ts, u1, u2) ==
    LET nextDir == SetDirection(p._nextDir, p.position, ts)
        first   == IsFloorAdjacentScreenPos(p.position, nextDir, u1)
        second  == ~first /\ IsFloorAdjacentScreenPos(p.position, p.lastDir, u2)
        moved   == IF first THEN UpdatePosition(p.position, nextDir)
                   ELSE IF second THEN UpdatePosition(p.position, p.lastDir)
                   ELSE p.position
        removal == IF first \/ second THEN TryRemovePelletScreenPos(pellets, moved)
                   ELSE [pellets |-> pellets, removed |-> FALSE]
        score   == p._score + (IF removal.removed THEN 1 ELSE 0)
        levelUp == score = maxP * p._level
    IN  [player |-> [position |-> moved,
                     lastDir  |-> IF first THEN nextDir ELSE p.lastDir,
                     _nextDir |-> IF first THEN 0 ELSE nextDir,
                     _score   |-> score,
                     _lives   |-> p._lives,
                     _level   |-> IF levelUp THEN p._level + 1 ELSE p._level],
         pellets |-> removal.pellets,
         levelUp |-> levelUp]

\* Enemy::Update in the PLAY state, as a function: the enemy afterwards.
EnemyPlay(e, aiType, playerPos, playerLastDir, blinkyPos) ==
    LET target  == SetTarget(aiType, e._target, e.position, playerPos, playerLastDir, blinkyPos)
        nextDir == GetNextDir(e.position, e._lastDir, target)
    IN  [position |-> UpdatePosition(e.position, nextDir),
         _lastDir |-> nextDir,
         _nextDir |-> nextDir,
         _target  |-> target]

(***************************************************************************)
(* The objects of main(), in the order of the AddGameObject calls.         *)
(* _GameObjects[i] of the code is GameObjects[i + 1].                      *)
(***************************************************************************)
GameObjects ==
    <<"splash", "gameOver", "maze", "player", "enemy1", "enemy2", "enemy3", "enemy4">>

\* The object of enemy k, and the place of an object in _GameObjects.
EnemyName == <<"enemy1", "enemy2", "enemy3", "enemy4">>

IndexOf(name) == CHOOSE i \in 1 .. Len(GameObjects) : GameObjects[i] = name

PlayerStart == Pos(13 * TILE_SIZE, 22 * TILE_SIZE)

EnemyStart ==
    << Pos(14 * TILE_SIZE, 12 * TILE_SIZE), Pos(12 * TILE_SIZE, 12 * TILE_SIZE),
       Pos(10 * TILE_SIZE, 12 * TILE_SIZE), Pos(16 * TILE_SIZE, 12 * TILE_SIZE) >>

EnemyAiType == <<BLINKY_AI, PINKY_AI, INKY_AI, CLYDE_AI>>

\* Variants of LoopOrder: the commit before the drawing, the drawing before
\* the updates.
LoopOrderCommitFirst == <<"input", "update", "commit", "draw">>

LoopOrderDrawFirst == <<"input", "draw", "update", "commit">>

\* The steps of one pass of the loop of GameEngine::MainGameLoop, in order.
LoopOrder == <<"input", "update", "draw", "commit">>

NextPhase(phase) ==
    LET k == CHOOSE j \in 1 .. Len(LoopOrder) : LoopOrder[j] = phase
    IN  LoopOrder[(k % Len(LoopOrder)) + 1]

(***************************************************************************)
(* The state.                                                              *)
(***************************************************************************)
VARIABLES
    CurGameState,   \* the global CurGameState
    NextGameState,  \* the global NextGameState
    TS_State,       \* the global TS_State: the touch sample of this tick
    pc,             \* where MainGameLoop is: "init" or a step of LoopOrder
    objIndex,       \* the loop variable of GameEngine::Update
    Updating,       \* BaseGameClass::Updating of each object
    Visible,        \* BaseGameClass::Visible of each object
    frameCount,     \* SplashScreen::_frameCount
    pellets,        \* Maze::_pellets
    maxPellets,     \* Maze::maxPellets
    initialDraw,    \* Maze::_initialDraw
    redrawStack,    \* Maze::redrawStack (the top is the last element)
    player,         \* position, lastDir, _nextDir, _score, _lives, _level
    enemies,        \* of each enemy: position, _lastDir, _nextDir, _target
    calls,          \* observer: the calls made so far in this tick
    writes,         \* observer: the assignments to NextGameState in this tick
    tickStart,      \* observer: score, lives, level, pellets at the tick's start
    tickCount,      \* observer: ticks completed, counted up to TickCap
    playTicks       \* observer: PLAY ticks completed in this run

vars ==
    <<CurGameState, NextGameState, TS_State, pc, objIndex, Updating, Visible,
      frameCount, pellets, maxPellets, initialDraw, redrawStack, player, enemies,
      calls, writes, tickStart, tickCount, playTicks>>

Snapshot(p, pel) ==
    [score |-> p._score, lives |-> p._lives, level |-> p._level, pellets |-> pel]

\* The state after the constructors of main() have run.
Init ==
    /\ CurGameState = SPLASH_SCREEN
    /\ NextGameState = SPLASH_SCREEN
    /\ TS_State = NoTouch
    /\ pc = "init"
    /\ objIndex = 1
    /\ Updating = [i \in 1 .. Len(GameObjects) |-> TRUE]
    /\ Visible = [i \in 1 .. Len(GameObjects) |-> TRUE]
    /\ frameCount = 0
    /\ pellets = SetPelletsClassicMaze
    /\ maxPellets = GetPelletCount(SetPelletsClassicMaze)
    /\ initialDraw = TRUE
    /\ redrawStack = <<>>
    /\ player = [position |-> PlayerStart, lastDir |-> EAST, _nextDir |-> 0,
                 _score |-> 0, _lives |-> ConstructorLives, _level |-> 1]
       \* _target is not initialised by the constructor; it is written before
       \* it is first read.
    /\ enemies = [k \in 1 .. 4 |->
                    [position |-> EnemyStart[k], _lastDir |-> 0, _nextDir |-> 0,
                     _target |-> Pos(0, 0)]]
    /\ calls = <<>>
    /\ writes = <<>>
    /\ tickStart = Snapshot(player, pellets)
    /\ tickCount = 0
    /\ playTicks = 0

(***************************************************************************)
(* Actions.                                                                *)
(***************************************************************************)
\* GameEngine::Init: Init() of every object; only Player::Init does anything.
GameEngineInit ==
    /\ pc = "init"
    /\ player' = [player EXCEPT !._score = 0, !._lives = InitLives]
    /\ pc' = "input"
    /\ UNCHANGED <<CurGameState, NextGameState, TS_State, objIndex, Updating, Visible,
                   frameCount, pellets, maxPellets, initialDraw, redrawStack, enemies,
                   calls, writes, tickStart, tickCount, playTicks>>

\* BSP_TS_GetState(&TS_State) at the top of the loop.
SampleInput ==
    /\ pc = "input"
    /\ ~(CurGameState = PLAY /\ playTicks >= MaxPlayTicks)
    /\ TS_State' \in TouchSamples
    /\ calls' = <<[op |-> "Input", obj |-> "engine", state |-> CurGameState]>>
    /\ writes' = <<>>
    /\ tickStart' = Snapshot(player, pellets)
    /\ pc' = NextPhase("input")
    /\ objIndex' = 1
    /\ UNCHANGED <<CurGameState, NextGameState, Updating, Visible, frameCount, pellets,
                   maxPellets, initialDraw, redrawStack, player, enemies, tickCount,
                   playTicks>>

\* A variant of Propose in which the first assignment of a tick stands.
ProposeFirst(s) ==
    /\ NextGameState' = IF writes = <<>> THEN s ELSE NextGameState
    /\ writes' = Append(writes, [obj |-> GameObjects[objIndex], value |-> s])

\* The assignment NextGameState = s by the object being updated.
Propose(s) ==
    /\ NextGameState' = s
    /\ writes' = Append(writes, [obj |-> GameObjects[objIndex], value |-> s])

NoPropose == UNCHANGED <<NextGameState, writes>>

SetVisible(b) == Visible' = [Visible EXCEPT ![objIndex] = b]

\* What the Update() functions may change.
gameVars ==
    <<NextGameState, writes, Visible, frameCount, pellets, initialDraw, redrawStack,
      player, enemies>>

\* One pass of the loop of GameEngine::Update is for the object `name`.
AtObject(name) == pc = "update" /\ GameObjects[objIndex] = name

\* The pass calls the object's Update() (body) when its Updating flag is set.
Called(name, body) ==
    IF Updating[objIndex]
    THEN /\ body
         /\ calls' = Append(calls, [op |-> "Update", obj |-> name, state |-> CurGameState])
    ELSE UNCHANGED <<gameVars, calls>>

\* The loop goes on to the next object, and after the last one the pass is over.
Advance ==
    /\ IF objIndex < Len(GameObjects)
       THEN objIndex' = objIndex + 1 /\ pc' = pc
       ELSE objIndex' = 1 /\ pc' = NextPhase("update")
    /\ UNCHANGED <<CurGameState, TS_State, Updating, maxPellets, tickStart, tickCount,
                   playTicks>>

\* A variant of SplashScreenBody that leaves the splash screen one frame later.
SplashScreenBodyLate ==
    /\ IF CurGameState = SPLASH_SCREEN
       THEN /\ SetVisible(TRUE)
            /\ IF frameCount + 1 > SplashFrames
               THEN Propose(STARTUP) /\ frameCount' = 0
               ELSE NoPropose /\ frameCount' = frameCount + 1
       ELSE SetVisible(FALSE) /\ NoPropose /\ UNCHANGED frameCount
    /\ UNCHANGED <<pellets, initialDraw, redrawStack, player, enemies>>

\* SplashScreen::Update.
SplashScreenBody ==
    /\ IF CurGameState = SPLASH_SCREEN
       THEN /\ SetVisible(TRUE)
            /\ IF frameCount + 1 >= SplashFrames
               THEN Propose(STARTUP) /\ frameCount' = 0
               ELSE NoPropose /\ frameCount' = frameCount + 1
       ELSE SetVisible(FALSE) /\ NoPropose /\ UNCHANGED frameCount
    /\ UNCHANGED <<pellets, initialDraw, redrawStack, player, enemies>>

SplashScreenUpdate ==
    /\ AtObject("splash")
    /\ Called("splash", SplashScreenBody)
    /\ Advance

\* A variant of GameOverScreenBody that does not wait for a touch.
GameOverScreenBodyNoWait ==
    /\ IF CurGameState = GAME_OVER
       THEN SetVisible(TRUE) /\ Propose(STARTUP)
       ELSE SetVisible(FALSE) /\ NoPropose
    /\ UNCHANGED <<frameCount, pellets, initialDraw, redrawStack, player, enemies>>

\* GameOverScreen::Update.
GameOverScreenBody ==
    /\ IF CurGameState = GAME_OVER
       THEN /\ SetVisible(TRUE)
            /\ IF TS_State.touchDetected THEN Propose(STARTUP) ELSE NoPropose
       ELSE SetVisible(FALSE) /\ NoPropose
    /\ UNCHANGED <<frameCount, pellets, initialDraw, redrawStack, player, enemies>>

GameOverScreenUpdate ==
    /\ AtObject("gameOver")
    /\ Called("gameOver", GameOverScreenBody)
    /\ Advance

\* A variant of MazeBody that refills the pellets in STARTUP only.
MazeBodyNoRefill ==
    /\ IF CurGameState = STARTUP
       THEN initialDraw' = TRUE /\ SetVisible(TRUE) /\ pellets' = SetPelletsClassicMaze
       ELSE IF CurGameState = NEXT_LEVEL
       THEN initialDraw' = TRUE /\ SetVisible(TRUE) /\ UNCHANGED pellets
       ELSE IF CurGameState = CONTINUE
       THEN initialDraw' = TRUE /\ UNCHANGED <<Visible, pellets>>
       ELSE IF CurGameState \in {PLAY, DEAD}
       THEN UNCHANGED <<initialDraw, Visible, pellets>>
       ELSE SetVisible(FALSE) /\ UNCHANGED <<initialDraw, pellets>>
    /\ NoPropose
    /\ UNCHANGED <<frameCount, redrawStack, player, enemies>>

\* Maze::Update.
MazeBody ==
    /\ IF CurGameState \in {STARTUP, NEXT_LEVEL}
       THEN initialDraw' = TRUE /\ SetVisible(TRUE) /\ pellets' = SetPelletsClassicMaze
       ELSE IF CurGameState = CONTINUE
       THEN initialDraw' = TRUE /\ UNCHANGED <<Visible, pellets>>
       ELSE IF CurGameState \in {PLAY, DEAD}
       THEN UNCHANGED <<initialDraw, Visible, pellets>>
       ELSE SetVisible(FALSE) /\ UNCHANGED <<initialDraw, pellets>>
    /\ NoPropose
    /\ UNCHANGED <<frameCount, redrawStack, player, enemies>>

MazeUpdate ==
    /\ AtObject("maze")
    /\ Called("maze", MazeBody)
    /\ Advance

\* A variant of PlayerWait that leaves the player where it is.
PlayerWaitStaysPut(p, ts, init) ==
    [position |-> p.position,
     lastDir  |-> p.lastDir,
     _nextDir |-> SetDirection(p._nextDir, PlayerStart, ts),
     _score   |-> IF init THEN 0 ELSE p._score,
     _lives   |-> IF init THEN InitLives ELSE p._lives,
     _level   |-> p._level]

\* A variant of PlayerWait that never calls Init().
PlayerWaitNoInit(p, ts, init) ==
    [position |-> PlayerStart,
     lastDir  |-> p.lastDir,
     _nextDir |-> SetDirection(p._nextDir, PlayerStart, ts),
     _score   |-> p._score,
     _lives   |-> p._lives,
     _level   |-> p._level]

\* A variant of PlayerWait that calls Init() in CONTINUE and NEXT_LEVEL as well.
PlayerWaitAlwaysInit(p, ts, init) ==
    [position |-> PlayerStart,
     lastDir  |-> p.lastDir,
     _nextDir |-> SetDirection(p._nextDir, PlayerStart, ts),
     _score   |-> 0,
     _lives   |-> InitLives,
     _level   |-> p._level]

\* Player::Update in STARTUP, CONTINUE and NEXT_LEVEL: back to the start
\* position (and Init() in STARTUP); a touch sets the direction and asks for PLAY.
PlayerWait(p, ts, init) ==
    [position |-> PlayerStart,
     lastDir  |-> p.lastDir,
     _nextDir |-> SetDirection(p._nextDir, PlayerStart, ts),
     _score   |-> IF init THEN 0 ELSE p._score,
     _lives   |-> IF init THEN InitLives ELSE p._lives,
     _level   |-> p._level]

\* A variant of PlayerDead that tests the lives before it takes one.
PlayerDeadTestsFirst(p) ==
    [player |-> [p EXCEPT !._lives = p._lives - 1],
     next   |-> IF p._lives = 0 THEN GAME_OVER ELSE CONTINUE]

\* A variant of PlayerDead that goes back to STARTUP once the lives are spent.
PlayerDeadRestart(p) ==
    [player |-> [p EXCEPT !._lives = p._lives - 1],
     next   |-> IF p._lives - 1 = 0 THEN STARTUP ELSE CONTINUE]

\* A variant of PlayerDead that leaves the lives as they are.
PlayerDeadKeepsLife(p) ==
    [player |-> p,
     next   |-> IF p._lives = 0 THEN GAME_OVER ELSE CONTINUE]

\* Player::Update in DEAD: the player afterwards and the value left in NextGameState.
PlayerDead(p) ==
    [player |-> [p EXCEPT !._lives = p._lives - 1],
     next   |-> IF p._lives - 1 = 0 THEN GAME_OVER ELSE CONTINUE]

\* A variant of PlayerWaitUpdate that asks for PLAY without waiting for a touch.
PlayerWaitUpdateNoTouch ==
    /\ player' = PlayerWait(player, TS_State, CurGameState = STARTUP)
    /\ IF CurGameState = STARTUP THEN SetVisible(TRUE) ELSE UNCHANGED Visible
    /\ Propose(PLAY)
    /\ UNCHANGED <<pellets, redrawStack>>

\* The cases STARTUP, CONTINUE and NEXT_LEVEL of Player::Update.
PlayerWaitUpdate ==
    /\ player' = PlayerWait(player, TS_State, CurGameState = STARTUP)
    /\ IF CurGameState = STARTUP THEN SetVisible(TRUE) ELSE UNCHANGED Visible
    /\ IF TS_State.touchDetected THEN Propose(PLAY) ELSE NoPropose
    /\ UNCHANGED <<pellets, redrawStack>>

\* Player::Update.
PlayerBody ==
    /\ IF CurGameState \in {STARTUP, CONTINUE, NEXT_LEVEL}
       THEN PlayerWaitUpdate
       ELSE IF CurGameState = PLAY
       THEN \E u1, u2 \in UninitPositions :
                LET r == PlayerPlay(player, pellets, maxPellets, TS_State, u1, u2)
                IN  /\ redrawStack' = Append(redrawStack, player.position)
                    /\ player' = r.player
                    /\ pellets' = r.pellets
                    /\ IF r.levelUp THEN Propose(NEXT_LEVEL) ELSE NoPropose
                    /\ UNCHANGED Visible
       ELSE IF CurGameState = DEAD
       THEN LET r == PlayerDead(player)
            IN  /\ player' = r.player
                /\ NextGameState' = r.next
                /\ writes' = IF r.next = GAME_OVER
                             THEN writes \o <<[obj |-> "player", value |-> CONTINUE],
                                              [obj |-> "player", value |-> GAME_OVER]>>
                             ELSE Append(writes, [obj |-> "player", value |-> CONTINUE])
                /\ UNCHANGED <<Visible, pellets, redrawStack>>
       ELSE IF CurGameState = GAME_OVER
       THEN /\ player' = [player EXCEPT !._level = 1]
            /\ SetVisible(FALSE)
            /\ NoPropose
            /\ UNCHANGED <<pellets, redrawStack>>
       ELSE SetVisible(FALSE) /\ NoPropose /\ UNCHANGED <<player, pellets, redrawStack>>
    /\ UNCHANGED <<frameCount, initialDraw, enemies>>

PlayerUpdate ==
    /\ AtObject("player")
    /\ Called("player", PlayerBody)
    /\ Advance

\* Enemy::Update of enemy k.  _blinky of enemy 3 is enemy 1.
EnemyBody(k) ==
    /\ IF CurGameState = STARTUP
       THEN /\ SetVisible(TRUE)
            /\ enemies' = [enemies EXCEPT ![k].position = EnemyStart[k]]
            /\ NoPropose
            /\ UNCHANGED redrawStack
       ELSE IF CurGameState \in {CONTINUE, NEXT_LEVEL}
       THEN /\ enemies' = [enemies EXCEPT ![k].position = EnemyStart[k]]
            /\ NoPropose
            /\ UNCHANGED <<Visible, redrawStack>>
       ELSE IF CurGameState = PLAY
       THEN LET e == EnemyPlay(enemies[k], EnemyAiType[k], player.position,
                               player.lastDir, enemies[1].position)
            IN  /\ redrawStack' = Append(redrawStack, enemies[k].position)
                /\ enemies' = [enemies EXCEPT ![k] = e]
                /\ IF HasCollided(e.position, player.position)
                   THEN Propose(DEAD) ELSE NoPropose
                /\ UNCHANGED Visible
       ELSE IF CurGameState = DEAD
       THEN NoPropose /\ UNCHANGED <<Visible, enemies, redrawStack>>
       ELSE SetVisible(FALSE) /\ NoPropose /\ UNCHANGED <<enemies, redrawStack>>
    /\ UNCHANGED <<frameCount, pellets, initialDraw, player>>

EnemyUpdate ==
    \E k \in 1 .. 4 :
        /\ AtObject(EnemyName[k])
        /\ Called(EnemyName[k], EnemyBody(k))
        /\ Advance

\* GameEngine::Draw: Draw() of every object whose Visible flag is set, in
\* registration order.  Only Maze::Draw changes the state: it clears
\* _initialDraw when set, and empties the redraw stack otherwise.
DrawCalls ==
    LET RECURSIVE From(_)
        From(i) ==
            IF i > Len(GameObjects) THEN <<>>
            ELSE (IF Visible[i]
                  THEN <<[op |-> "Draw", obj |-> GameObjects[i], state |-> CurGameState]>>
                  ELSE <<>>) \o From(i + 1)
    IN  From(1)

\* A variant of EngineDraw in which Maze::Draw redraws the top of the stack only.
EngineDrawTopOnly ==
    /\ pc = "draw"
    /\ calls' = calls \o DrawCalls
    /\ IF Visible[IndexOf("maze")]
       THEN IF initialDraw
            THEN initialDraw' = FALSE /\ UNCHANGED redrawStack
            ELSE /\ redrawStack' = IF redrawStack = <<>> THEN <<>>
                                   ELSE SubSeq(redrawStack, 1, Len(redrawStack) - 1)
                 /\ UNCHANGED initialDraw
       ELSE UNCHANGED <<initialDraw, redrawStack>>
    /\ pc' = NextPhase("draw")
    /\ UNCHANGED <<CurGameState, NextGameState, TS_State, objIndex, Updating, Visible,
                   frameCount, pellets, maxPellets, player, enemies, writes, tickStart,
                   tickCount, playTicks>>

EngineDraw ==
    /\ pc = "draw"
    /\ calls' = calls \o DrawCalls
    /\ IF Visible[IndexOf("maze")]
       THEN IF initialDraw
            THEN initialDraw' = FALSE /\ UNCHANGED redrawStack
            ELSE redrawStack' = <<>> /\ UNCHANGED initialDraw
       ELSE UNCHANGED <<initialDraw, redrawStack>>
    /\ pc' = NextPhase("draw")
    /\ UNCHANGED <<CurGameState, NextGameState, TS_State, objIndex, Updating, Visible,
                   frameCount, pellets, maxPellets, player, enemies, writes, tickStart,
                   tickCount, playTicks>>

\* CurGameState = NextGameState at the end of the pass.
Commit ==
    /\ pc = "commit"
    /\ CurGameState' = NextGameState
    /\ tickCount' = IF tickCount < TickCap THEN tickCount + 1 ELSE tickCount
    /\ playTicks' = IF CurGameState = PLAY THEN playTicks + 1 ELSE playTicks
    /\ pc' = NextPhase("commit")
    /\ UNCHANGED <<NextGameState, TS_State, objIndex, Updating, Visible, frameCount,
                   pellets, maxPellets, initialDraw, redrawStack, player, enemies, calls,
                   writes, tickStart>>

GameLoop ==
    \/ SampleInput
    \/ SplashScreenUpdate
    \/ GameOverScreenUpdate
    \/ MazeUpdate
    \/ PlayerUpdate
    \/ EnemyUpdate
    \/ EngineDraw
    \/ Commit

Next == GameEngineInit \/ GameLoop

\* The program from its construction.
Spec == Init /\ [][Next]_vars

(***************************************************************************)
(* Two states of a long game, each at the top of the loop of               *)
(* MainGameLoop.  Both are what the code above computes from Init with     *)
(* the inputs described, every read of an uninitialised position having    *)
(* come out as a wall.                                                     *)
(***************************************************************************)
\* Every game so far was started with a touch to the right of the player
\* and nothing was touched afterwards: the player ran east along row 22,
\* stopped at the wall and was caught nine times there.  It is on its last
\* life and Inky is two ticks away from it.
LastLife ==
    [pellets |-> [SetPelletsClassicMaze EXCEPT ![23] = \h7001FCE],
     player  |-> [position |-> Pos(168, 176), lastDir |-> EAST, _nextDir |-> 0,
                  _score |-> 8, _lives |-> 1, _level |-> 1],
     enemies |-> << [position |-> Pos(144, 143), _lastDir |-> SOUTH, _nextDir |-> SOUTH,
                     _target |-> Pos(168, 176)],
                    [position |-> Pos(199, 152), _lastDir |-> EAST, _nextDir |-> EAST,
                     _target |-> Pos(200, 176)],
                    [position |-> Pos(168, 167), _lastDir |-> SOUTH, _nextDir |-> SOUTH,
                     _target |-> Pos(224, 209)],
                    [position |-> Pos(143, 128), _lastDir |-> EAST, _nextDir |-> EAST,
                     _target |-> Pos(168, 176)] >>]

\* The player has eaten every pellet but the one of tile (21, 21), at the
\* cost of two lives, and waits on the tile below it, one step to the north
\* away from the pellet.  Inky comes down the corridor of that pellet and is
\* three ticks away from the player.
LastPellet ==
    [pellets |-> [y \in 1 .. HEIGHT |-> IF y = 22 THEN \h200000 ELSE 0],
     player  |-> [position |-> Pos(168, 176), lastDir |-> EAST, _nextDir |-> 0,
                  _score |-> 240, _lives |-> 8, _level |-> 1],
     enemies |-> << [position |-> Pos(144, 142), _lastDir |-> SOUTH, _nextDir |-> SOUTH,
                     _target |-> Pos(168, 176)],
                    [position |-> Pos(198, 152), _lastDir |-> EAST, _nextDir |-> EAST,
                     _target |-> Pos(200, 176)],
                    [position |-> Pos(168, 166), _lastDir |-> SOUTH, _nextDir |-> SOUTH,
                     _target |-> Pos(224, 210)],
                    [position |-> Pos(142, 128), _lastDir |-> EAST, _nextDir |-> EAST,
                     _target |-> Pos(168, 176)] >>]

\* The player has gone east, then north up the corridor of column 21 and
\* east again into the tunnel of row 14, eating 16 pellets on the way, and
\* is one step away from the right-hand end of the tunnel.  Pinky follows
\* forty pixels behind.
InTunnel ==
    [pellets |-> [y \in 1 .. HEIGHT |->
                    IF y \in 15 .. 19 THEN \h40
                    ELSE IF y = 20 THEN \h7DF9FFE
                    ELSE IF y \in {21, 22} THEN \h4009042
                    ELSE IF y = 23 THEN \h7001FCE
                    ELSE SetPelletsClassicMaze[y]],
     player  |-> [position |-> Pos(215, 112), lastDir |-> EAST, _nextDir |-> 0,
                  _score |-> 16, _lives |-> 10, _level |-> 1],
     enemies |-> << [position |-> Pos(159, 112), _lastDir |-> EAST, _nextDir |-> EAST,
                     _target |-> Pos(215, 112)],
                    [position |-> Pos(175, 112), _lastDir |-> EAST, _nextDir |-> EAST,
                     _target |-> Pos(247, 112)],
                    [position |-> Pos(23, 112), _lastDir |-> EAST, _nextDir |-> EAST,
                     _target |-> Pos(303, 112)],
                    [position |-> Pos(144, 113), _lastDir |-> NORTH, _nextDir |-> NORTH,
                     _target |-> Pos(215, 112)] >>]

\* The player on its way up the corridor of column 21, two steps below the
\* junction with the corridor of row 19, with nothing pending.
BeforeJunction ==
    [pellets |-> [y \in 1 .. HEIGHT |->
                    IF y = 20 THEN \h7DF9FFE
                    ELSE IF y \in {21, 22} THEN \h4009042
                    ELSE IF y = 23 THEN \h7001FCE
                    ELSE SetPelletsClassicMaze[y]],
     player  |-> [position |-> Pos(168, 154), lastDir |-> NORTH, _nextDir |-> 0,
                  _score |-> 11, _lives |-> 10, _level |-> 1],
     enemies |-> << [position |-> Pos(86, 128), _lastDir |-> EAST, _nextDir |-> EAST,
                     _target |-> Pos(168, 154)],
                    [position |-> Pos(144, 134), _lastDir |-> SOUTH, _nextDir |-> SOUTH,
                     _target |-> Pos(168, 122)],
                    [position |-> Pos(150, 112), _lastDir |-> EAST, _nextDir |-> EAST,
                     _target |-> Pos(250, 148)],
                    [position |-> Pos(72, 126), _lastDir |-> SOUTH, _nextDir |-> SOUTH,
                     _target |-> Pos(168, 154)] >>]

\* The program in the middle of a game, in PLAY at the top of the loop.
InPlay(g) ==
    /\ CurGameState = PLAY
    /\ NextGameState = PLAY
    /\ TS_State = NoTouch
    /\ pc = "input"
    /\ objIndex = 1
    /\ Updating = [i \in 1 .. Len(GameObjects) |-> TRUE]
    /\ Visible = [i \in 1 .. Len(GameObjects) |-> GameObjects[i] \notin {"splash", "gameOver"}]
    /\ frameCount = 0
    /\ pellets = g.pellets
    /\ maxPellets = GetPelletCount(SetPelletsClassicMaze)
    /\ initialDraw = FALSE
    /\ redrawStack = <<>>
    /\ player = g.player
    /\ enemies = g.enemies
    /\ calls = <<>>
    /\ writes = <<>>
    /\ tickStart = Snapshot(g.player, g.pellets)
    /\ tickCount = TickCap
    /\ playTicks = 0

InitRun ==
    \/ Init
    \/ InPlay(LastLife)
    \/ InPlay(LastPellet)
    \/ InPlay(InTunnel)
    \/ InPlay(BeforeJunction)

\* The program from its construction and from four states of long games.
SpecRun == InitRun /\ [][Next]_vars

(***************************************************************************)
(* The functions of Maze and BaseGameSprite on their own, called with      *)
(* arguments from bounded sets.  The maze is the one of the game (pellets),*)
(* the sprite is the player (player.position), and calls holds the last    *)
(* call made, with its arguments and its result.                           *)
(***************************************************************************)
Tiles == (0 .. WIDTH - 1) \X (0 .. HEIGHT - 1)

\* The tiles that hold a pellet in `old` and none in `new`.
PelletsGone(old, new) ==
    {t \in Tiles : old[t[2] + 1] # new[t[2] + 1]
                     /\ IsPellet(old, t[1], t[2]) /\ ~IsPellet(new, t[1], t[2])}

UnitTiles == (-1 .. WIDTH) \X {-1, 2, 21, HEIGHT}

UnitPositions ==
    {Pos(px, TILE_SIZE * r + o) :
        px \in (-UnitMargin) .. (WIDTH * TILE_SIZE + UnitMargin),
        r \in 0 .. HEIGHT - 1,
        o \in {0, 1, TILE_SIZE - 1}}

Cardinal == {NORTH, EAST, SOUTH, WEST}

\* Where an enemy is put for a call of its Update on its own: on and one
\* pixel past every tile of a wall row, of three corridor rows and of the
\* tunnel row.
UnitEnemyPositions ==
    {Pos(TILE_SIZE * c + o, TILE_SIZE * r) :
        c \in 0 .. WIDTH - 1, r \in {1, 6, 12, 14, 22}, o \in {0, 1}}

\* Where the player is for that call.
UnitPlayerPositions == {PlayerStart, Pos(6 * TILE_SIZE, 6 * TILE_SIZE), Pos(173, 117)}

InitUnit ==
    /\ pc \in {"maze", "sprite", "enemy"}
    /\ CurGameState = (IF pc = "enemy" THEN PLAY ELSE SPLASH_SCREEN)
    /\ NextGameState = CurGameState
    /\ TS_State = NoTouch
    /\ objIndex \in (IF pc = "enemy" THEN {IndexOf(EnemyName[k]) : k \in 1 .. 4} ELSE {1})
    /\ Updating = [i \in 1 .. Len(GameObjects) |-> TRUE]
    /\ Visible = [i \in 1 .. Len(GameObjects) |-> TRUE]
    /\ frameCount = 0
    /\ maxPellets = GetPelletCount(SetPelletsClassicMaze)
    /\ initialDraw = TRUE
    /\ redrawStack = <<>>
    /\ IF pc = "enemy"
       THEN \E p \in UnitEnemyPositions, d \in Cardinal \cup {0} :
               enemies = [k \in 1 .. 4 |->
                            IF objIndex = IndexOf(EnemyName[k])
                            THEN [position |-> p, _lastDir |-> d, _nextDir |-> d,
                                  _target |-> Pos(0, 0)]
                            ELSE [position |-> EnemyStart[k], _lastDir |-> 0,
                                  _nextDir |-> 0, _target |-> Pos(0, 0)]]
       ELSE enemies = [k \in 1 .. 4 |->
                         [position |-> EnemyStart[k], _lastDir |-> 0, _nextDir |-> 0,
                          _target |-> Pos(0, 0)]]
    /\ calls = <<>>
    /\ writes = <<>>
    /\ tickCount = 0
    /\ playTicks = 0
    /\ \/ /\ pc = "maze"
          /\ pellets \in {SetPelletsClassicMaze, LastLife.pellets, LastPellet.pellets}
          /\ player = [position |-> PlayerStart, lastDir |-> EAST, _nextDir |-> 0,
                       _score |-> 0, _lives |-> ConstructorLives, _level |-> 1]
       \/ /\ pc = "sprite"
          /\ pellets = SetPelletsClassicMaze
          /\ \E p \in UnitPositions :
                player = [position |-> p, lastDir |-> EAST, _nextDir |-> 0,
                          _score |-> 0, _lives |-> ConstructorLives, _level |-> 1]
       \/ /\ pc = "enemy"
          /\ pellets = SetPelletsClassicMaze
          /\ \E p \in UnitPlayerPositions, d \in {NORTH, EAST} :
                player = [position |-> p, lastDir |-> d, _nextDir |-> 0,
                          _score |-> 0, _lives |-> InitLives, _level |-> 1]
    /\ tickStart = Snapshot(player, pellets)

unitFrame ==
    <<CurGameState, NextGameState, TS_State, pc, objIndex, Updating, Visible, frameCount,
      maxPellets, initialDraw, redrawStack, enemies, writes, tickStart, tickCount,
      playTicks>>

\* A call of Maze::TryRemovePellet(x, y): the first one, or one that follows
\* a call that removed a pellet.
TryRemovePelletCall ==
    /\ pc = "maze"
    /\ IF calls = <<>> THEN TRUE ELSE calls[1].removed
    /\ Cardinality(PelletsGone(tickStart.pellets, pellets)) < MaxRemovals
    /\ \E t \in UnitTiles :
          LET r == TryRemovePellet(pellets, t[1], t[2])
          IN  /\ pellets' = r.pellets
              /\ calls' = <<[op |-> "TryRemovePellet", x |-> t[1], y |-> t[2],
                             before |-> pellets, removed |-> r.removed]>>
    /\ UNCHANGED <<unitFrame, player>>

\* Calls of Maze::IsFloorAdjacentScreenPos(position, d), one for each of the
\* four directions.
IsFloorAdjacentCall ==
    /\ pc = "sprite" /\ calls = <<>>
    /\ calls' = <<[op |-> "IsFloorAdjacentScreenPos", pos |-> player.position,
                   result |-> [d \in Cardinal |->
                                 IsFloorAdjacentScreenPos(player.position, d, Pos(0, 0))]]>>
    /\ UNCHANGED <<unitFrame, player, pellets>>

\* A call of Maze::ScreenPosToTilePos(position).
ScreenPosToTilePosCall ==
    /\ pc = "sprite" /\ calls = <<>>
    /\ calls' = <<[op |-> "ScreenPosToTilePos", pos |-> player.position,
                   result |-> ScreenPosToTilePos(player.position)]>>
    /\ UNCHANGED <<unitFrame, player, pellets>>

\* A call of BaseGameSprite::UpdatePosition(d).
UpdatePositionCall ==
    /\ pc = "sprite" /\ calls = <<>>
    /\ \E d \in Cardinal \cup {0} :
          /\ player' = [player EXCEPT !.position = UpdatePosition(@, d)]
          /\ calls' = <<[op |-> "UpdatePosition", from |-> player.position, dir |-> d]>>
    /\ UNCHANGED <<unitFrame, pellets>>

\* Calls of BaseGameSprite::HasCollided: the player's against enemy k, and
\* enemy k's against the player.
HasCollidedCall ==
    /\ pc = "sprite" /\ calls = <<>>
    /\ \E k \in DOMAIN enemies :
          calls' = <<[op |-> "HasCollided", a |-> player.position, b |-> enemies[k].position,
                      result |-> HasCollided(player.position, enemies[k].position),
                      reverse |-> HasCollided(enemies[k].position, player.position)]>>
    /\ UNCHANGED <<unitFrame, player, pellets>>

\* A call of Enemy::Update in the PLAY state, of the enemy that objIndex
\* points at.
EnemyUpdateCall ==
    /\ pc = "enemy" /\ calls = <<>>
    /\ \E k \in 1 .. 4 :
          /\ objIndex = IndexOf(EnemyName[k])
          /\ EnemyBody(k)
          /\ calls' = <<[op |-> "Enemy::Update", k |-> k, before |-> enemies[k]]>>
    /\ UNCHANGED <<CurGameState, TS_State, pc, objIndex, Updating, maxPellets, tickStart,
                   tickCount, playTicks>>

\* A call of Player::SetDirection with the touch sample ts in TS_State.
SetDirectionCall ==
    /\ pc = "sprite" /\ calls = <<>>
    /\ \E ts \in TouchSamples :
          /\ player' = [player EXCEPT !._nextDir = SetDirection(@, player.position, ts)]
          /\ calls' = <<[op |-> "SetDirection", touch |-> ts, before |-> player._nextDir]>>
    /\ UNCHANGED <<unitFrame, pellets>>

NextUnit ==
    \/ TryRemovePelletCall
    \/ IsFloorAdjacentCall
    \/ ScreenPosToTilePosCall
    \/ UpdatePositionCall
    \/ HasCollidedCall
    \/ EnemyUpdateCall
    \/ SetDirectionCall

SpecUnit == InitUnit /\ [][NextUnit]_vars

(***************************************************************************)
(* Properties.  A tick is one pass of the loop; its commit is the step     *)
(* taken at pc = "commit", and in that state every Update and Draw of the  *)
(* tick has run.                                                           *)
(***************************************************************************)
AtCommit(s) == pc = "commit" /\ CurGameState = s

\* C1: the committed game state changes only along SPLASH->STARTUP,
\* STARTUP->PLAY, PLAY->DEAD, PLAY->NEXT_LEVEL, DEAD->CONTINUE,
\* DEAD->GAME_OVER, CONTINUE->PLAY, NEXT_LEVEL->PLAY and GAME_OVER->STARTUP;
\* SPLASH is never re-entered and MAIN_MENU is never reached.
AllowedChanges ==
    { <<SPLASH_SCREEN, STARTUP>>, <<STARTUP, PLAY>>, <<PLAY, DEAD>>, <<PLAY, NEXT_LEVEL>>,
      <<DEAD, CONTINUE>>, <<DEAD, GAME_OVER>>, <<CONTINUE, PLAY>>, <<NEXT_LEVEL, PLAY>>,
      <<GAME_OVER, STARTUP>> }

C1_OnlyAllowedChanges ==
    /\ [][CurGameState' # CurGameState
            => <<CurGameState, CurGameState'>> \in AllowedChanges]_vars
    /\ [][CurGameState' = SPLASH_SCREEN => CurGameState = SPLASH_SCREEN]_vars
    /\ [](CurGameState # MAIN_MENU /\ NextGameState # MAIN_MENU)

\* C1 witness: a game that went through DEAD and GAME_OVER is back in STARTUP.
C1_BackInStartup == CurGameState = STARTUP /\ player._lives = 0

\* C2: the current state changes only at the commit that ends a tick, and
\* every Update and Draw of a tick observes the state the tick started in,
\* whatever next state has been proposed meanwhile.
C2_OneStatePerTick ==
    /\ [](\A k \in DOMAIN calls : calls[k].state = calls[1].state)
    /\ [][CurGameState' # CurGameState => pc = "commit" /\ pc' = "input"]_vars

\* C2 witness: the player asked for PLAY in a STARTUP tick, and the four
\* enemies were updated and everything visible drawn after that.
C2_ProposedBeforeOthersRan ==
    /\ AtCommit(STARTUP)
    /\ NextGameState = PLAY
    /\ \E k \in DOMAIN calls : calls[k].op = "Draw" /\ calls[k].obj = "enemy4"

\* C3: a tick samples the input once, then updates every registered object
\* whose Updating flag is set, in registration order, then draws every
\* object whose Visible flag is set, then commits.
RegistrationOrder ==
    <<"splash", "gameOver", "maze", "player", "enemy1", "enemy2", "enemy3", "enemy4">>

UpdatesUpTo(n, s) ==
    LET RECURSIVE Upd(_)
        Upd(i) ==
            IF i > n THEN <<>>
            ELSE (IF Updating[i]
                  THEN <<[op |-> "Update", obj |-> RegistrationOrder[i], state |-> s]>>
                  ELSE <<>>) \o Upd(i + 1)
    IN  Upd(1)

DrawsOfVisible(s) ==
    LET RECURSIVE Drw(_)
        Drw(i) ==
            IF i > Len(RegistrationOrder) THEN <<>>
            ELSE (IF Visible[i]
                  THEN <<[op |-> "Draw", obj |-> RegistrationOrder[i], state |-> s]>>
                  ELSE <<>>) \o Drw(i + 1)
    IN  Drw(1)

InputOf(s) == <<[op |-> "Input", obj |-> "engine", state |-> s]>>

C3_TickOrder ==
    /\ pc = "update" =>
         calls = InputOf(CurGameState) \o UpdatesUpTo(objIndex - 1, CurGameState)
    /\ pc = "draw" =>
         calls = InputOf(CurGameState) \o UpdatesUpTo(Len(RegistrationOrder), CurGameState)
    /\ pc = "commit" =>
         calls = InputOf(CurGameState)
                   \o UpdatesUpTo(Len(RegistrationOrder), CurGameState)
                   \o DrawsOfVisible(CurGameState)

\* C3 witness: the end of a PLAY tick, in which the two screens are hidden
\* and so six objects are drawn after eight were updated.
C3_PlayTickDone == AtCommit(PLAY) /\ Len(calls) = 15

\* The boxes of side TILE_SIZE at the two positions strictly overlap.
Overlaps(a, b) == Abs(a.x - b.x) < TILE_SIZE /\ Abs(a.y - b.y) < TILE_SIZE

Caught == \E k \in DOMAIN enemies : Overlaps(enemies[k].position, player.position)

\* C4: a PLAY tick at whose end the box of some enemy strictly overlaps the
\* player's commits DEAD, whatever else was proposed in it, and DEAD is not
\* committed at the end of any other tick.
C4_DeadIffCaught ==
    /\ [][AtCommit(PLAY) /\ Caught => CurGameState' = DEAD]_vars
    /\ [][pc = "commit" /\ CurGameState' = DEAD => CurGameState = PLAY /\ Caught]_vars

\* C4 witness: DEAD has just been committed with an enemy on the player.
C4_CaughtAndDead == CurGameState = DEAD /\ pc = "input" /\ Caught

\* C5: DEAD lasts one tick, in which the lives go down by exactly one; its
\* commit is GAME_OVER when no life is left and CONTINUE otherwise.
C5_DeadTick ==
    [][AtCommit(DEAD) =>
          /\ player._lives = tickStart.lives - 1
          /\ CurGameState' = IF player._lives = 0 THEN GAME_OVER ELSE CONTINUE]_vars

\* C5 witness: the last life was lost in the tick that has just ended.
C5_LastLifeLost ==
    CurGameState = GAME_OVER /\ pc = "input" /\ tickStart.lives = 1 /\ player._lives = 0

\* C6: a PLAY tick in which the score after the player's move equals
\* maxPellets times the level raises the level by one and commits NEXT_LEVEL.
C6_LevelUpCommitsNextLevel ==
    [][AtCommit(PLAY) /\ player._score = maxPellets * tickStart.level =>
          /\ player._level = tickStart.level + 1
          /\ CurGameState' = NEXT_LEVEL]_vars

\* C7: the assignment to NextGameState made last in a tick is the one
\* committed; with NEXT_LEVEL from the player and DEAD from an enemy in one
\* PLAY tick, DEAD is committed.
LastWrite == writes[Len(writes)]

PlayerThenEnemy ==
    \E i, j \in DOMAIN writes :
        /\ i < j
        /\ writes[i] = [obj |-> "player", value |-> NEXT_LEVEL]
        /\ writes[j].obj \in {"enemy1", "enemy2", "enemy3", "enemy4"}
        /\ writes[j].value = DEAD

C7_LastWriterWins ==
    /\ [][pc = "commit" /\ writes # <<>> => CurGameState' = LastWrite.value]_vars
    /\ [][pc = "commit" /\ PlayerThenEnemy => CurGameState' = DEAD]_vars

\* C7 witness: the tick that has just ended had NEXT_LEVEL from the player
\* and then DEAD from an enemy, and DEAD is the current state.
C7_DeadOverNextLevel == CurGameState = DEAD /\ pc = "input" /\ PlayerThenEnemy

\* C8: from the constructed state the current state is SPLASH in each of the
\* first 50 ticks and STARTUP from the start of the 51st, whatever is touched.
C8_SplashFiftyTicks ==
    /\ tickCount < 50 => CurGameState = SPLASH_SCREEN
    /\ tickCount = 50 => CurGameState = STARTUP

\* C8 witness: the 51st tick begins after a touch in the 50th.
C8_TickFiftyOne == tickCount = 50 /\ pc = "input" /\ TS_State.touchDetected

\* C9: in STARTUP, CONTINUE and NEXT_LEVEL a tick commits PLAY exactly when a
\* touch was detected in it, and leaves the state as it is otherwise.
C9_PlayIffTouch ==
    [][pc = "commit" /\ CurGameState \in {STARTUP, CONTINUE, NEXT_LEVEL} =>
          CurGameState' = IF TS_State.touchDetected THEN PLAY ELSE CurGameState]_vars

\* C9 witness: play has resumed after a NEXT_LEVEL tick with a touch, which
\* followed a NEXT_LEVEL tick without one.
C9_ResumedAfterWait ==
    /\ CurGameState = PLAY /\ pc = "input"
    /\ TS_State.touchDetected
    /\ player._level = 2
    /\ tickStart.pellets = SetPelletsClassicMaze

C12_FullMazeAtStart ==
    [][pc = "commit" /\ CurGameState \in {STARTUP, NEXT_LEVEL} /\ CurGameState' = PLAY =>
          /\ pellets = SetPelletsClassicMaze
          /\ GetPelletCount(pellets) = maxPellets]_vars

\* C12 witness: the maze was empty when the NEXT_LEVEL tick that has just
\* ended began, and play resumes on level 2.
C12_RefilledForLevelTwo ==
    /\ CurGameState = PLAY /\ pc = "input"
    /\ player._level = 2
    /\ tickStart.pellets = [y \in 1 .. HEIGHT |-> 0]
    /\ pellets = SetPelletsClassicMaze

\* C13: no step taken in DEAD or CONTINUE changes the pellets, the score or
\* the level, so they are at the commit from CONTINUE to PLAY what they were
\* at the commit from PLAY to DEAD before it.
C13_DeadAndContinueKeep ==
    [][(CurGameState = DEAD \/ CurGameState = CONTINUE) =>
          /\ pellets' = pellets
          /\ player'._score = player._score
          /\ player'._level = player._level]_vars

\* C13 witness: play has resumed after a death with seven lives left and
\* the score and the one pellet of before.
C13_ResumedAfterDeath ==
    /\ CurGameState = PLAY /\ pc = "input" /\ TS_State.touchDetected
    /\ player._lives = 7 /\ player._score = 240
    /\ GetPelletCount(pellets) = 1

\* C14: in a PLAY tick the score goes up by the number of pellets removed
\* from the maze in it, which is 0 or 1, and no pellet appears; no step
\* taken in PLAY lowers the score.
C14_ScoreCountsPellets ==
    /\ [](AtCommit(PLAY) =>
            /\ Cardinality(PelletsGone(tickStart.pellets, pellets)) \in {0, 1}
            /\ player._score
                 = tickStart.score + Cardinality(PelletsGone(tickStart.pellets, pellets))
            /\ PelletsGone(pellets, tickStart.pellets) = {})
    /\ [][CurGameState = PLAY => player'._score >= player._score]_vars

\* C14 witness: the end of a PLAY tick in which the player ate a pellet.
C14_AtePellet ==
    /\ AtCommit(PLAY)
    /\ player._score = tickStart.score + 1
    /\ pellets # tickStart.pellets

PelletsOnFloor(p) == \A t \in Tiles : IsPellet(p, t[1], t[2]) => IsFloor(t[1], t[2])

\* C15: in every reachable state every pellet is on a floor tile: it is so
\* after construction, and every step that changes the pellets (a refill, a
\* removal) leaves it so.
C15_PelletsOnFloor ==
    /\ PelletsOnFloor(pellets)
    /\ [][pellets' # pellets => PelletsOnFloor(pellets')]_vars

\* C15 witness: the maze has been refilled at the start of a new game after
\* pellets had been eaten from it.
C15_RefilledAfterEating ==
    /\ CurGameState = STARTUP /\ pc = "draw"
    /\ pellets = SetPelletsClassicMaze
    /\ tickStart.pellets # pellets

\* The last call made, when it is a call of the function op.
LastCall(op) == calls # <<>> /\ calls[1].op = op

\* C16: TryRemovePellet(x, y) returns true exactly when tile (x, y) is in
\* bounds and holds a pellet, and afterwards the tile holds none; a second
\* call on the same tile returns false and changes nothing; a call on a tile
\* out of bounds returns false and changes nothing.
C16_TryRemovePelletContract ==
    LastCall("TryRemovePellet") =>
        LET c == calls[1]
        IN  /\ c.removed <=> (IsInBounds(c.x, c.y) /\ IsPellet(c.before, c.x, c.y))
            /\ ~IsPellet(pellets, c.x, c.y)
            /\ TryRemovePellet(pellets, c.x, c.y) = [pellets |-> pellets, removed |-> FALSE]
            /\ ~IsInBounds(c.x, c.y) => ~c.removed /\ pellets = c.before

\* C16 witness: a second call on a tile whose pellet an earlier call removed
\* has returned false and changed nothing.
C16_SecondCallOnEatenTile ==
    /\ LastCall("TryRemovePellet")
    /\ <<calls[1].x, calls[1].y>> \in PelletsGone(tickStart.pellets, calls[1].before)
    /\ ~calls[1].removed
    /\ pellets = calls[1].before

OnScreen(pos) ==
    /\ pos.x >= 0 /\ pos.x <= (WIDTH - 1) * TILE_SIZE
    /\ pos.y >= 0 /\ pos.y <= (HEIGHT - 1) * TILE_SIZE

\* The two points sampled for a move from pos in direction d.
SamplePoints(pos, d) ==
    IF d = NORTH THEN {Pos(pos.x, pos.y - 1), Pos(pos.x + TILE_SIZE - 1, pos.y - 1)}
    ELSE IF d = SOUTH
         THEN {Pos(pos.x, pos.y + TILE_SIZE), Pos(pos.x + TILE_SIZE - 1, pos.y + TILE_SIZE)}
    ELSE IF d = EAST
         THEN {Pos(pos.x + TILE_SIZE, pos.y), Pos(pos.x + TILE_SIZE, pos.y + TILE_SIZE - 1)}
    ELSE {Pos(pos.x - 1, pos.y), Pos(pos.x - 1, pos.y + TILE_SIZE - 1)}

\* The point pt lies on a floor tile of the grid: the tile that covers it,
\* column floor(x / TILE_SIZE) and row floor(y / TILE_SIZE), is in the grid
\* and is floor.
OnFloorTile(pt) ==
    LET col == pt.x \div TILE_SIZE
        row == pt.y \div TILE_SIZE
    IN  /\ col \in 0 .. WIDTH - 1
        /\ row \in 0 .. HEIGHT - 1
        /\ Bit(SetClassicMaze[row + 1], col) = 1

\* C18: for a sprite on the screen and each of the four directions,
\* IsFloorAdjacentScreenPos is true exactly when both sample points of the
\* direction lie on floor tiles, a point on no tile of the grid counting as
\* wall.
C18_BothSamplesOnFloor ==
    LastCall("IsFloorAdjacentScreenPos") /\ OnScreen(calls[1].pos) =>
        \A d \in Cardinal :
            calls[1].result[d] <=> \A pt \in SamplePoints(calls[1].pos, d) : OnFloorTile(pt)

\* C19: for every screen position the game converts, from (-1, y), sampled
\* for a sprite at x = 0 that tests WEST, to the far corner of the screen,
\* ScreenPosToTilePos returns the floor of each coordinate divided by
\* TILE_SIZE.
C19_ConversionIsFloorDivision ==
    LastCall("ScreenPosToTilePos") /\ calls[1].pos.x >= -1 /\ calls[1].pos.y >= -1 =>
        /\ calls[1].result.x = calls[1].pos.x \div TILE_SIZE
        /\ calls[1].result.y = calls[1].pos.y \div TILE_SIZE

\* C20: UpdatePosition(WEST) at x = 0 leaves the sprite at
\* x = (WIDTH - 1) * TILE_SIZE, and UpdatePosition(EAST) at
\* x = (WIDTH - 1) * TILE_SIZE leaves it at x = 0, in the same row.
C20_WrapRoundTrip ==
    LastCall("UpdatePosition") =>
        LET c == calls[1]
        IN  /\ c.from.x = 0 /\ c.dir = WEST =>
                  player.position = Pos((WIDTH - 1) * TILE_SIZE, c.from.y)
            /\ c.from.x = (WIDTH - 1) * TILE_SIZE /\ c.dir = EAST =>
                  player.position = Pos(0, c.from.y)

\* One pixel from pos in the cardinal direction d, no teleport applied.
OnePixel(pos, d) ==
    Pos(pos.x + (IF d = EAST THEN 1 ELSE IF d = WEST THEN -1 ELSE 0),
        pos.y + (IF d = SOUTH THEN 1 ELSE IF d = NORTH THEN -1 ELSE 0))

\* C21: UpdatePosition(d) for a cardinal d moves one pixel in d and then
\* teleports on the x it arrived at, whatever d was: 0 becomes
\* (WIDTH - 1) * TILE_SIZE, (WIDTH - 1) * TILE_SIZE becomes 0, any other x
\* stays; y is the y of the one-pixel move.
C21_OnePixelThenWrap ==
    LastCall("UpdatePosition") /\ calls[1].dir \in Cardinal =>
        LET moved == OnePixel(calls[1].from, calls[1].dir)
        IN  /\ player.position.y = moved.y
            /\ player.position.x =
                  (IF moved.x = 0 THEN (WIDTH - 1) * TILE_SIZE
                   ELSE IF moved.x = (WIDTH - 1) * TILE_SIZE THEN 0
                   ELSE moved.x)

\* C21 witness: a move to the north in the column x = 0 has ended in the
\* column x = (WIDTH - 1) * TILE_SIZE, one pixel up.
C21_NorthAtLeftEdge ==
    /\ LastCall("UpdatePosition")
    /\ calls[1].dir = NORTH /\ calls[1].from.x = 0
    /\ player.position = Pos((WIDTH - 1) * TILE_SIZE, calls[1].from.y - 1)

\* C22: HasCollided(a, b) is true exactly when the two positions differ by
\* less than TILE_SIZE in x and in y, so boxes that only touch do not
\* collide, and HasCollided(b, a) is the same.
C22_StrictOverlapSymmetric ==
    LastCall("HasCollided") =>
        /\ calls[1].result <=>
              (Abs(calls[1].a.x - calls[1].b.x) < TILE_SIZE
                 /\ Abs(calls[1].a.y - calls[1].b.y) < TILE_SIZE)
        /\ calls[1].reverse = calls[1].result

\* C22 witness: the two boxes touch along a whole edge and the call has
\* returned false.
C22_TouchingEdge ==
    /\ LastCall("HasCollided")
    /\ calls[1].a.x = calls[1].b.x + TILE_SIZE
    /\ calls[1].a.y = calls[1].b.y
    /\ ~calls[1].result

\* The direction opposite to d; none for a d that is none of the four.
Reverse(d) ==
    IF d = NORTH THEN SOUTH ELSE IF d = SOUTH THEN NORTH
    ELSE IF d = EAST THEN WEST ELSE IF d = WEST THEN EAST ELSE 0

\* The place of d in the order NORTH, SOUTH, EAST, WEST.
Rank(d) == IF d = NORTH THEN 1 ELSE IF d = SOUTH THEN 2 ELSE IF d = EAST THEN 3 ELSE 4

SqDist(a, b) == (a.x - b.x) * (a.x - b.x) + (a.y - b.y) * (a.y - b.y)

\* The directions an enemy with position pos and last direction last may
\* take: not the reverse of last, and passable.
Admissible(pos, last) ==
    {d \in Cardinal : d # Reverse(last) /\ IsFloorAdjacentScreenPos(pos, d, Pos(0, 0))}

\* The position after the teleport of UpdatePosition.
Teleported(pos) ==
    IF pos.x = 0 THEN Pos((WIDTH - 1) * TILE_SIZE, pos.y)
    ELSE IF pos.x = (WIDTH - 1) * TILE_SIZE THEN Pos(0, pos.y)
    ELSE pos

EnemyMoves(k) ==
    CurGameState = PLAY /\ pc = "update" /\ objIndex = IndexOf(EnemyName[k])

\* The step moves no enemy in the reverse of its last direction.
NoReverseMove ==
    \A k \in 1 .. 4 :
        EnemyMoves(k) =>
            /\ enemies'[k]._lastDir \in Cardinal
            /\ enemies'[k].position
                 = Teleported(OnePixel(enemies[k].position, enemies'[k]._lastDir))
            /\ enemies[k]._lastDir \in Cardinal
                 => enemies'[k]._lastDir # Reverse(enemies[k]._lastDir)

\* C25: in every PLAY tick every enemy moves one pixel in a direction that is
\* not the reverse of the one it moved in in its previous PLAY tick.
C25_NeverReverses == [][NoReverseMove]_vars

\* C25 witness: at the end of a PLAY tick an enemy has moved on in its
\* direction although that took it farther from its target.
C25_MovedAwayFromTarget ==
    /\ AtCommit(PLAY)
    /\ \E k \in 1 .. 4 :
          /\ enemies[k]._lastDir \in Cardinal
          /\ SqDist(enemies[k].position, enemies[k]._target)
               > SqDist(OnePixel(enemies[k].position, Reverse(enemies[k]._lastDir)),
                        enemies[k]._target)

\* The sprite at pos can move in d: d is one of the four directions and both
\* sample points are on floor.
Passable(pos, d) == d \in Cardinal /\ IsFloorAdjacentScreenPos(pos, d, Pos(0, 0))

\* The step is Player::Update in the PLAY state and moves the player by the
\* rule of C26; pending is the candidate direction after the tick's touch.
PlayerMovesByRule ==
    CurGameState = PLAY /\ pc = "update" /\ objIndex = IndexOf("player") =>
        LET pending == SetDirection(player._nextDir, player.position, TS_State)
        IN  IF Passable(player.position, pending)
            THEN /\ player'.position = Teleported(OnePixel(player.position, pending))
                 /\ player'.lastDir = pending
            ELSE IF Passable(player.position, player.lastDir)
            THEN /\ player'.position = Teleported(OnePixel(player.position, player.lastDir))
                 /\ player'.lastDir = player.lastDir
            ELSE player'.position = player.position

\* C26: in a PLAY tick the player moves one pixel in the pending direction
\* when that is passable, and it becomes lastDir; else one pixel in lastDir
\* when that is passable, lastDir staying; else not at all.  With nothing
\* pending the second and the third case apply.
C26_PlayerMovementPolicy == [][PlayerMovesByRule]_vars

\* C27: for a touch at (tx, ty) and the player at (px, py), the pending
\* direction is on the horizontal axis when |px - tx| >= |py - ty| and on the
\* vertical axis otherwise; it is EAST when tx > px and WEST otherwise, SOUTH
\* when ty > py and NORTH otherwise.
C27_TouchToDirection ==
    LastCall("SetDirection") /\ calls[1].touch.touchDetected =>
        LET tx == calls[1].touch.touchX
            ty == calls[1].touch.touchY
            px == player.position.x
            py == player.position.y
        IN  player._nextDir =
              (IF Abs(px - tx) >= Abs(py - ty)
               THEN (IF tx > px THEN EAST ELSE WEST)
               ELSE (IF ty > py THEN SOUTH ELSE NORTH))

\* C27 witness: the touch is as far from the player in x as in y, to the
\* east and to the north of it, and the pending direction is EAST.
C27_TieGoesHorizontal ==
    /\ LastCall("SetDirection") /\ calls[1].touch.touchDetected
    /\ calls[1].touch.touchX - player.position.x = player.position.y - calls[1].touch.touchY
    /\ calls[1].touch.touchX > player.position.x
    /\ player._nextDir = EAST

\* The point n pixels from pos in the cardinal direction d.
Along(pos, d, n) ==
    Pos(pos.x + n * (OnePixel(pos, d).x - pos.x), pos.y + n * (OnePixel(pos, d).y - pos.y))

\* The directions along which a target ahead of the player may lie: the
\* player's lastDir, or any of the four when lastDir is none of them.
PlayerHeadings == IF player.lastDir \in Cardinal THEN {player.lastDir} ELSE Cardinal

\* C28: at the end of every PLAY tick the target of the Ambusher (enemy 2)
\* is the point 4 * TILE_SIZE pixels from the player's position along the
\* player's lastDir, whatever its target was before.
C28_AmbusherFourTilesAhead ==
    AtCommit(PLAY) =>
        \E d \in PlayerHeadings :
            enemies[2]._target = Along(player.position, d, PinkyAhead * TILE_SIZE)

\* C29: at the end of every PLAY tick the target of the Flanker (enemy 3) is
\* 2 * P - A, where P is the point 2 * TILE_SIZE pixels from the player's
\* position along the player's lastDir and A is the position of the anchor
\* (enemy 1) after its move of the tick.
C29_FlankerMirrorsAnchor ==
    AtCommit(PLAY) =>
        \E d \in PlayerHeadings :
            LET P == Along(player.position, d, InkyAhead * TILE_SIZE)
                A == enemies[1].position
            IN  enemies[3]._target = Pos(2 * P.x - A.x, 2 * P.y - A.y)

\* C30: in a PLAY tick the target of the Patroller (enemy 4) is the
\* player's position when the two are more than 8 * TILE_SIZE pixels apart
\* in Manhattan distance, and the point (0, HEIGHT * TILE_SIZE) when they
\* are 8 * TILE_SIZE pixels apart or less.
C30_PatrollerChasesOrRetreats ==
    LastCall("Enemy::Update") /\ calls[1].k = 4 =>
        LET b == calls[1].before
            apart == Abs(b.position.x - player.position.x)
                       + Abs(b.position.y - player.position.y)
        IN  enemies[4]._target =
              (IF apart > 8 * TILE_SIZE THEN player.position
               ELSE Pos(0, HEIGHT * TILE_SIZE))

\* C30 witness: the Patroller was exactly 8 * TILE_SIZE pixels from the
\* player and its target is the retreat point.
C30_RetreatsAtRange ==
    /\ LastCall("Enemy::Update") /\ calls[1].k = 4
    /\ Abs(calls[1].before.position.x - player.position.x)
         + Abs(calls[1].before.position.y - player.position.y) = 8 * TILE_SIZE
    /\ enemies[4]._target = Pos(0, HEIGHT * TILE_SIZE)

\* Every sprite is where its constructor put it.
AllAtStart ==
    /\ player.position = PlayerStart
    /\ \A k \in 1 .. 4 : enemies[k].position = EnemyStart[k]

EntersPlayAtStart ==
    (/\ pc = "commit"
     /\ CurGameState # PLAY
     /\ CurGameState' = PLAY)
    => (/\ CurGameState = STARTUP \/ CurGameState = CONTINUE \/ CurGameState = NEXT_LEVEL
        /\ AllAtStart
        /\ \A k \in 1 .. 4 : ~Overlaps(enemies[k].position, player.position))

\* C31: at every commit into PLAY, which happens from STARTUP, CONTINUE or
\* NEXT_LEVEL only, the player and the four enemies are at their start
\* positions, and no enemy overlaps the player.
C31_AllAtStartOnEnteringPlay == [][EntersPlayAtStart]_vars

\* PLAY resumed after a death in play: the sprites had moved, and are back at
\* their start positions at the start of the first tick.
C31_BackAtStartAfterDeath ==
    /\ CurGameState = PLAY
    /\ pc = "input"
    /\ player._lives = 7
    /\ \E k \in 1 .. 4 : enemies[k]._lastDir # 0
    /\ AllAtStart

\* The sprites that push their position in a PLAY tick: the player and the enemies.
MovingSprites == Cardinality(DOMAIN enemies) + 1

\* C32: the redraw stack is empty once the draw pass of a tick is over, and
\* never holds more than one position per moving sprite.
C32_RedrawStackDrained ==
    /\ Len(redrawStack) <= MovingSprites
    /\ (pc = "commit" \/ pc = "input") => redrawStack = <<>>

\* The end of a PLAY tick in which all five sprites were updated and drawn.
C32_DrainedAfterPlayTick ==
    /\ pc = "commit"
    /\ CurGameState = PLAY
    /\ Len(SelectSeq(calls, LAMBDA c : c.op = "Update")) = Len(GameObjects)
    /\ \E k \in 1 .. 4 : enemies[k].position # EnemyStart[k]
    /\ redrawStack = <<>>

\* The top of the loop in the PLAY state.
StartOfPlayTick == CurGameState = PLAY /\ pc = "input"

\* C33: at the start of every PLAY tick the pellets left in the maze number
\* maxPellets * level - score, and at least one pellet is left.
C33_PelletsMatchScore ==
    StartOfPlayTick =>
        /\ GetPelletCount(pellets) = maxPellets * player._level - player._score
        /\ GetPelletCount(pellets) >= 1

\* The TILE_SIZE x TILE_SIZE box at pos covers floor tiles only.
BoxOnFloor(pos) ==
    \A dx, dy \in {0, TILE_SIZE - 1} : OnFloorTile(Pos(pos.x + dx, pos.y + dy))

C35_SpritesOnScreen ==
    /\ OnScreen(player.position)
    /\ \A k \in 1 .. 4 : OnScreen(enemies[k].position)

\* The lives in the states in which a game is on.
LivesInRange ==
    /\ player._lives >= 0
    /\ CurGameState \in {PLAY, CONTINUE, NEXT_LEVEL} =>
           player._lives >= 1 /\ player._lives <= InitLives

\* The lives change by Init() at the start of a game and by one per DEAD
\* tick only, so InitLives minus the lives is the number of deaths of the game.
LivesCountDeaths ==
    \/ player'._lives = player._lives
    \/ CurGameState = DEAD /\ player'._lives = player._lives - 1
    \/ (pc = "init" \/ CurGameState = STARTUP) /\ player'._lives = InitLives

\* GAME_OVER is entered from the DEAD tick that takes the last life, and that
\* tick enters nothing else.
GameOverAtLastDeath ==
    /\ (pc = "commit" /\ CurGameState # GAME_OVER /\ CurGameState' = GAME_OVER) =>
           CurGameState = DEAD /\ tickStart.lives = 1 /\ player._lives = 0
    /\ (AtCommit(DEAD) /\ player._lives = 0) => CurGameState' = GAME_OVER

\* C36: the lives are between 1 and InitLives in PLAY, CONTINUE and
\* NEXT_LEVEL and never negative, and GAME_OVER is entered exactly at the
\* death that takes the last of the InitLives lives of a game.
C36_LivesAndGameOver ==
    /\ []LivesInRange
    /\ [][LivesCountDeaths]_vars
    /\ [][GameOverAtLastDeath]_vars

\* GAME_OVER has just been entered: the game began with InitLives lives and
\* none is left.
C36_GameOverWithNoLives ==
    /\ CurGameState = GAME_OVER
    /\ pc = "input"
    /\ tickStart.lives = 1
    /\ player._lives = 0
    /\ calls[Len(calls)].state = DEAD

\* The step is Player::Update in the PLAY state.
PlayerPlays == CurGameState = PLAY /\ pc = "update" /\ objIndex = IndexOf("player")

\* A pending direction, the one of the tick's touch or the one kept from
\* before, is taken and cleared when it is passable and kept when it is not.
PendingTakenOrKept ==
    LET pending == SetDirection(player._nextDir, player.position, TS_State)
    IN  PlayerPlays /\ pending \in Cardinal =>
            IF Passable(player.position, pending)
            THEN /\ player'.position = Teleported(OnePixel(player.position, pending))
                 /\ player'.lastDir = pending
                 /\ player'._nextDir = 0
            ELSE player'._nextDir = pending

\* The pending direction changes only in an update of the player: a tick's
\* touch sets it, and without a touch the tick that takes it clears it.
PendingChangesOnlyBy ==
    \/ player'._nextDir = player._nextDir
    \/ /\ pc = "update" /\ objIndex = IndexOf("player")
       /\ TS_State.touchDetected
       /\ CurGameState \in {STARTUP, CONTINUE, NEXT_LEVEL, PLAY}
    \/ /\ PlayerPlays
       /\ Passable(player.position, player._nextDir)
       /\ player'.lastDir = player._nextDir
       /\ player'._nextDir = 0

\* C37: a direction set by a touch that is not passable stays pending
\* through the PLAY ticks without touch and is taken in the first of them in
\* which it is passable; a tick without touch leaves the pending direction
\* alone unless it takes it, and only taking it clears it.
C37_PendingKeptUntilTaken ==
    /\ [][PendingTakenOrKept]_vars
    /\ [][PendingChangesOnlyBy]_vars

\* The player has turned WEST at the junction of row 19 in a tick without
\* touch: the turn was asked for two steps below the junction, where it was
\* not passable, and was kept until the junction.
C37_TurnedAtJunction ==
    /\ AtCommit(PLAY)
    /\ ~TS_State.touchDetected
    /\ player.position = OnePixel(Along(BeforeJunction.player.position, NORTH, 2), WEST)
    /\ player.lastDir = WEST
    /\ player._nextDir = 0
    /\ playTicks = 2

=============================================================================
